---- MODULE Spec2Model ----
(***************************************************************************)
(* Turn synchronisation of the multiplayer text adventure: the room        *)
(* document in the store (game_rooms.game_state), the lobby (create, join, *)
(* ready, auto-start) and the two TextAdventure components of the          *)
(* repository: the current one (src/app/components/TextAdventure.tsx) and  *)
(* the timed one with the turn timer and skip (src/unnamed/part_002).      *)
(* Every client of a run executes the same component; `build` says which.  *)
(* A call to the store is followed from the moment it is sent: the store   *)
(* executes it at some later step and its answer reaches the caller at a   *)
(* later step again, other clients' steps coming in between.               *)
(***************************************************************************)
EXTENDS Integers, Sequences, FiniteSets, TLC

VARIABLES
  build,            \* "src": TextAdventure.tsx, "timer": part_002
  clicks,           \* the number of forms submitted and buttons pressed so far, all clients together
  rooms,            \* game_rooms: game_state per room id (nil = no such row yet)
  roomId,           \* per client: Lobby / page roomId (0 = '')
  view,             \* per client: "home" | "lobby" | "game" | "crashed" (Lobby roomId and playerId, page gameStarted)
  playerId,         \* per client: Lobby playerId ("" before the first join answered)
  lobbyError,       \* per client: Lobby error ("" = null)
  lobbyPlayers,     \* per client: Lobby `players` state
  gameState,        \* per client: TextAdventure `gameState` (nil = null)
  previousStateRef, \* per client: TextAdventure.tsx previousStateRef (last document taken)
  inbox,            \* per client: realtime UPDATE notifications not yet delivered
  initFetch,        \* per client: initial selects of subscribeToGameRoom not yet delivered
  async,            \* per client: the handler calls that await the store or the engine
  isProcessing,     \* per client: isProcessing (part_002) / isLoading (TextAdventure.tsx)
  timerState,       \* per client: gameState captured by the running interval's closure (nil = no interval)
  error,            \* per client: TextAdventure `error` state ("" = null)
  timeRemaining,    \* per client: timeRemaining of part_002
  isTimerPaused,    \* per client: isTimerPaused of part_002
  isApiLimited,     \* per client: isApiLimited (the "needs to rest" banner)
  uncaught          \* per client: a handler's promise was rejected with nobody to catch it

vars == <<build, clicks, rooms, roomId, view, playerId, lobbyError, lobbyPlayers, gameState, previousStateRef,
          inbox, initFetch, async, isProcessing, timerState, error,
          timeRemaining, isTimerPaused, isApiLimited, uncaught>>

\* what the timer of part_002 holds
timerVars == <<timerState, timeRemaining, isTimerPaused>>

\* the flags of the TextAdventure components
flagVars == <<isProcessing, error, isApiLimited, uncaught>>

----------------------------------------------------------------------------
(* Bounds of the model *)
MaxHistory == 3   \* a command or skip is submitted only from a history shorter than this
MaxInbox == 1     \* a write is accepted only while every subscriber has fewer pending notifications
MaxCalls == 2     \* a handler call is started only while fewer calls (of all clients) are awaiting
MaxRoster == 3    \* a join is submitted only while roster and joins under way are fewer than this
MaxClicks == 3    \* a form is submitted or a button pressed only while fewer were before
MaxRooms == 1     \* a room is created only while rooms and creations under way are fewer than this

(* Constants of src/unnamed/part_002 *)
TURN_TIME_LIMIT == 60   \* seconds per turn
ExtendSeconds == 30     \* what the +30s button adds

(* Inputs *)
Clients == {"c1", "c2"}
\* the ids the store gives its rows, in the order of insertion; 0 is the empty
\* room code
RoomIds == 1..MaxRooms
\* the room codes typed into the join form
RoomCodes == 1..MaxRooms
\* outcomes of Math.random().toString(36).substring(7): the draws of two joins
\* are independent, and a short expansion of the number leaves the empty string
RandomIds == {"", "p1", "p2"}
NameOf(c) == IF c = "c1" THEN "Ann" ELSE "Bob"   \* the name typed in the lobby
Builds == {"src", "timer"}
Commands == {"look", "take torch"}
Items == {"torch", "chest", "mysterious item"}
\* the commands typed when the engine's handling of commands is what is examined
EngineCommands == {"look", "help", "take", "take ", "take torch", "take chest", "equip torch"}

----------------------------------------------------------------------------
(* Documents.  `ext` tells whether the fields gameStarted, equippedItems,  *)
(* foundItems and helpInfo exist (only TextAdventure.tsx creates them);    *)
(* without ext they read as undefined.  gameStarted is the truth value of  *)
(* the field (undefined reads as false).                                   *)
NoInv == [i \in {} |-> <<>>]

Nil == [nil |-> TRUE, currentLocation |-> "", inventory |-> NoInv, history |-> <<>>,
        currentPlayer |-> "", players |-> <<>>, ext |-> FALSE, gameStarted |-> FALSE,
        equippedItems |-> NoInv, foundItems |-> <<>>]

Line(kind, who, what) == <<kind, who, what>>

\* createGameRoom: the inserted game_state
createGameRoom ==
  [nil |-> FALSE, currentLocation |-> "cave", inventory |-> NoInv,
   history |-> << Line("welcome", "", "") >>,
   currentPlayer |-> "", players |-> <<>>, ext |-> FALSE, gameStarted |-> FALSE,
   equippedItems |-> NoInv, foundItems |-> <<>>]

Ids(players) == {players[i].id : i \in 1..Len(players)}

\* Array.prototype.every over isReady, with the length test of the Lobby
AllReady(players) == Len(players) > 0 /\ \A i \in 1..Len(players) : players[i].isReady

\* Array.prototype.findIndex by id, 0-based; -1 when absent
findIndex(players, id) ==
  IF id \in Ids(players)
  THEN (CHOOSE i \in 1..Len(players) :
          players[i].id = id /\ \A j \in 1..(i-1) : players[j].id # id) - 1
  ELSE -1

\* players.find(p => p.id === id)?.name || 'Unknown'
findName(players, id) ==
  IF id \in Ids(players) THEN players[findIndex(players, id) + 1].name ELSE "Unknown"

\* {...obj, [key]: value} on an id-keyed map
Put(map, key, value) ==
  [k \in (DOMAIN map) \cup {key} |-> IF k = key THEN value ELSE map[k]]

SeqHas(seq, x) == \E i \in 1..Len(seq) : seq[i] = x

\* seq without its element at index i (Array.prototype.splice(i, 1))
RemoveAt(seq, i) == [j \in 1..(Len(seq) - 1) |-> IF j < i THEN seq[j] ELSE seq[j + 1]]

\* client c holds a channel of room r: the Lobby with roomId and playerId set,
\* or a mounted TextAdventure
Subscribed(c, r) == view[c] \in {"lobby", "game"} /\ roomId[c] = r

\* The store accepts a write only while no subscriber's queue is full
CanNotify(r) == \A c \in Clients : Subscribed(c, r) => Len(inbox[c]) < MaxInbox

\* postgres_changes UPDATE: one notification per accepted write to every
\* subscriber of the room
Notified(r, doc) ==
  [c \in Clients |-> IF Subscribed(c, r) THEN Append(inbox[c], doc) ELSE inbox[c]]

\* an awaiting handler call: what it is, the room it addresses, the document
\* it read or captured, the document it hands to the store, its argument, the
\* player id it works for, and how far it is: "insert" / "select" (the insert
\* of createGameRoom / the select of joinGameRoom or updatePlayerStatus is with
\* the store), "engine" (processGameAction is awaited), "sent" (its update is
\* with the store), "applied" / "rejected" (the store's answer is on its way
\* back)
Call(kind, r, snap, doc, arg, id, stage) ==
  [kind |-> kind, room |-> r, snap |-> snap, doc |-> doc, arg |-> arg, id |-> id,
   stage |-> stage]

\* the initial select of a subscription, sent and not yet executed by the
\* store: the component whose callback awaits it, and the roomId and playerId
\* its closure holds
Unread(to, r, id) == [read |-> FALSE, doc |-> Nil, room |-> r, id |-> id, to |-> to]

\* one awaiting call of a client changed, or taken away
SetCall(c, i, call) == [async EXCEPT ![c] = [@ EXCEPT ![i] = call]]
DropCall(c, i) == [async EXCEPT ![c] = RemoveAt(@, i)]

\* the number of handler calls awaiting, all clients together
Awaiting == Cardinality({p \in Clients \X (1..MaxCalls) : p[2] <= Len(async[p[1]])})

\* the inserts of createGameRoom the store has not executed yet
Inserting ==
  Cardinality({p \in Clients \X (1..MaxCalls) :
                 p[2] <= Len(async[p[1]]) /\ async[p[1]][p[2]].stage = "insert"})

\* the rooms the store holds
Existing == {r \in RoomIds : ~rooms[r].nil}

----------------------------------------------------------------------------
Init ==
  /\ build \in Builds
  /\ clicks = 0
  /\ rooms = [r \in RoomIds |-> Nil]
  /\ roomId = [c \in Clients |-> 0]
  /\ view = [c \in Clients |-> "home"]
  /\ playerId = [c \in Clients |-> ""]
  /\ lobbyError = [c \in Clients |-> ""]
  /\ lobbyPlayers = [c \in Clients |-> <<>>]
  /\ gameState = [c \in Clients |-> Nil]
  /\ previousStateRef = [c \in Clients |-> Nil]
  /\ inbox = [c \in Clients |-> <<>>]
  /\ initFetch = [c \in Clients |-> <<>>]
  /\ async = [c \in Clients |-> <<>>]
  /\ isProcessing = [c \in Clients |-> FALSE]
  /\ timerState = [c \in Clients |-> Nil]
  /\ error = [c \in Clients |-> ""]
  /\ timeRemaining = [c \in Clients |-> TURN_TIME_LIMIT]
  /\ isTimerPaused = [c \in Clients |-> FALSE]
  /\ isApiLimited = [c \in Clients |-> FALSE]
  /\ uncaught = [c \in Clients |-> FALSE]

----------------------------------------------------------------------------
(* supabase.ts *)

\* joinGameRoom: the document written from the one read
joinGameRoom(doc, id, name) ==
  [doc EXCEPT !.players = Append(doc.players, [id |-> id, name |-> name, isReady |-> FALSE]),
              !.inventory = Put(doc.inventory, id, <<>>)]

\* a status update whose map ignores the player id
updatePlayerStatusEveryone(doc, id, isReady) ==
  [doc EXCEPT !.players =
     [i \in 1..Len(doc.players) |-> [doc.players[i] EXCEPT !.isReady = isReady]]]

\* updatePlayerStatus: the document written from the one read
updatePlayerStatus(doc, id, isReady) ==
  [doc EXCEPT !.players =
     [i \in 1..Len(doc.players) |->
        IF doc.players[i].id = id
        THEN [doc.players[i] EXCEPT !.isReady = isReady]
        ELSE doc.players[i]]]

----------------------------------------------------------------------------
(* The store *)

\* The store executes the insert of createGameRoom: a row with a new id.  The
\* channels listen to UPDATE only, nobody is notified.
StoreInserts(c, i) ==
  /\ i \in 1..Len(async[c]) /\ async[c][i].stage = "insert"
  /\ Cardinality(Existing) < MaxRooms
  /\ LET r == CHOOSE x \in RoomIds \ Existing : \A y \in RoomIds \ Existing : x <= y
     IN /\ rooms' = [rooms EXCEPT ![r] = createGameRoom]
        /\ async' = SetCall(c, i, [async[c][i] EXCEPT !.room = r, !.stage = "select"])
  /\ UNCHANGED <<build, clicks, roomId, view, playerId, lobbyPlayers, lobbyError, gameState,
                 previousStateRef, inbox, initFetch, timerVars, flagVars>>

\* The store executes an update it was sent: the whole document is replaced
\* and every subscriber of the room is notified
StoreApplies(c, i) ==
  /\ i \in 1..Len(async[c]) /\ async[c][i].stage = "sent"
  /\ CanNotify(async[c][i].room)
  /\ rooms' = [rooms EXCEPT ![async[c][i].room] = async[c][i].doc]
  /\ inbox' = Notified(async[c][i].room, async[c][i].doc)
  /\ async' = SetCall(c, i, [async[c][i] EXCEPT !.stage = "applied"])
  /\ UNCHANGED <<build, clicks, roomId, view, playerId, lobbyPlayers, lobbyError, gameState,
                 previousStateRef, initFetch, timerVars, flagVars>>

\* The store answers a request of a handler (insert, select or update) with
\* an error
StoreRejects(c, i) ==
  /\ i \in 1..Len(async[c]) /\ async[c][i].stage \in {"insert", "select", "sent"}
  /\ async' = SetCall(c, i, [async[c][i] EXCEPT !.stage = "rejected"])
  /\ UNCHANGED <<build, clicks, rooms, roomId, view, playerId, lobbyPlayers, lobbyError, gameState,
                 previousStateRef, inbox, initFetch, timerVars, flagVars>>

\* The store executes the initial select of a subscription; .single() on a
\* room that does not exist gives an error and the callback is never called
StoreReads(c, i) ==
  /\ i \in 1..Len(initFetch[c]) /\ ~initFetch[c][i].read
  /\ initFetch' = [initFetch EXCEPT ![c] =
       IF initFetch[c][i].room \in Existing
       THEN [@ EXCEPT ![i] = [@ EXCEPT !.read = TRUE, !.doc = rooms[initFetch[c][i].room]]]
       ELSE RemoveAt(@, i)]
  /\ UNCHANGED <<build, clicks, rooms, roomId, view, playerId, lobbyPlayers, lobbyError, gameState,
                 previousStateRef, inbox, async, timerVars, flagVars>>

\* The store executes the select of joinGameRoom; on its answer the id is
\* drawn and the update built from the document read is sent.  .single() on a
\* room that does not exist gives an error.
joinGameRoomSelect(c, i, id) ==
  /\ i \in 1..Len(async[c]) /\ async[c][i].kind \in {"create", "join"}
  /\ async[c][i].stage = "select"
  /\ async' = SetCall(c, i,
       IF async[c][i].room \in Existing
       THEN [async[c][i] EXCEPT
               !.snap = rooms[async[c][i].room],
               !.doc = joinGameRoom(rooms[async[c][i].room], id, NameOf(c)),
               !.id = id,
               !.stage = "sent"]
       ELSE [async[c][i] EXCEPT !.stage = "rejected"])
  /\ UNCHANGED <<build, clicks, rooms, roomId, view, playerId, lobbyPlayers, lobbyError, gameState,
                 previousStateRef, inbox, initFetch, timerVars, flagVars>>

\* the store executes the select of updatePlayerStatus; the update built from
\* its answer is sent
updatePlayerStatusSelect(c, i) ==
  /\ i \in 1..Len(async[c]) /\ async[c][i].kind = "ready" /\ async[c][i].stage = "select"
  /\ async' = SetCall(c, i,
       IF async[c][i].room \in Existing
       THEN [async[c][i] EXCEPT
               !.snap = rooms[async[c][i].room],
               !.doc = updatePlayerStatus(rooms[async[c][i].room], async[c][i].id,
                                          async[c][i].arg = "true"),
               !.stage = "sent"]
       ELSE [async[c][i] EXCEPT !.stage = "rejected"])
  /\ UNCHANGED <<build, clicks, rooms, roomId, view, playerId, lobbyPlayers, lobbyError, gameState,
                 previousStateRef, inbox, initFetch, timerVars, flagVars>>

----------------------------------------------------------------------------
(* Lobby.tsx *)

\* the Lobby is mounted (page.tsx renders it until the game starts)
LobbyMounted(c) == view[c] \in {"home", "lobby"}

\* isCreatingRoom: set when handleCreateRoom starts, cleared in its finally
isCreatingRoom(c) == \E i \in 1..Len(async[c]) : async[c][i].kind = "create"

\* the joins under way that may still add a player to room r: those that
\* address it and, while r does not exist, the creations not yet inserted
Joining(r) ==
  Cardinality({p \in Clients \X (1..MaxCalls) :
                 /\ p[2] <= Len(async[p[1]])
                 /\ async[p[1]][p[2]].kind \in {"create", "join"}
                 /\ async[p[1]][p[2]].stage \in {"insert", "select", "sent"}
                 /\ \/ async[p[1]][p[2]].room = r
                    \/ async[p[1]][p[2]].room = 0 /\ r \notin Existing})

\* the Lobby effect after setRoomId(r) and setPlayerId(id): nothing when both
\* are the ones held; else the old subscription is dropped and, when both are
\* truthy, a new one made (channel and initial select)
LobbySubscribes(c, r, id) ==
  IF r = roomId[c] /\ id = playerId[c]
  THEN UNCHANGED <<view, inbox, initFetch>>
  ELSE /\ view' = [view EXCEPT ![c] = IF r = 0 \/ id = "" THEN "home" ELSE "lobby"]
       /\ inbox' = [inbox EXCEPT ![c] = <<>>]
       /\ initFetch' = [initFetch EXCEPT ![c] =
            IF r = 0 \/ id = "" THEN @ ELSE Append(@, Unread("lobby", r, id))]

\* handleCreateRoom, up to the insert of createGameRoom being sent.  The
\* button is on the home form and disabled while isCreatingRoom.
handleCreateRoom(c) ==
  /\ view[c] = "home" /\ ~isCreatingRoom(c)
  /\ clicks < MaxClicks /\ Awaiting < MaxCalls
  /\ clicks' = clicks + 1
  /\ Cardinality(Existing) + Inserting < MaxRooms
  /\ \A r \in RoomIds \ Existing : Joining(r) < MaxRoster
  /\ lobbyError' = [lobbyError EXCEPT ![c] = ""]
  /\ async' = [async EXCEPT ![c] = Append(@, Call("create", 0, Nil, Nil, "", "", "insert"))]
  /\ UNCHANGED <<build, rooms, roomId, view, playerId, lobbyPlayers, gameState,
                 previousStateRef, inbox, initFetch, timerVars, flagVars>>

\* handleCreateRoom after joinGameRoom returned the id: setRoomId and
\* setPlayerId, then the Lobby effect; after a rejection of createGameRoom or
\* joinGameRoom the catch block.  (Nothing is left to set once the Lobby is
\* unmounted.)
handleCreateRoomAnswer(c, i) ==
  /\ i \in 1..Len(async[c]) /\ async[c][i].kind = "create"
  /\ async[c][i].stage \in {"applied", "rejected"}
  /\ async' = DropCall(c, i)
  /\ IF LobbyMounted(c) /\ async[c][i].stage = "applied"
     THEN /\ roomId' = [roomId EXCEPT ![c] = async[c][i].room]
          /\ playerId' = [playerId EXCEPT ![c] = async[c][i].id]
          /\ LobbySubscribes(c, async[c][i].room, async[c][i].id)
          /\ UNCHANGED lobbyError
     ELSE /\ lobbyError' = [lobbyError EXCEPT ![c] =
               IF LobbyMounted(c) THEN "Failed to create room. Please try again." ELSE @]
          /\ UNCHANGED <<roomId, playerId, view, inbox, initFetch>>
  /\ UNCHANGED <<build, clicks, rooms, lobbyPlayers, gameState, previousStateRef, timerVars, flagVars>>

\* handleJoinRoom with `code` typed into the form, up to the select of
\* joinGameRoom being sent
handleJoinRoom(c, code) ==
  /\ view[c] = "home"
  /\ clicks < MaxClicks /\ Awaiting < MaxCalls
  /\ clicks' = clicks + 1
  /\ Len(rooms[code].players) + Joining(code) < MaxRoster
  /\ roomId' = [roomId EXCEPT ![c] = code]
  /\ lobbyError' = [lobbyError EXCEPT ![c] = ""]
  /\ async' = [async EXCEPT ![c] = Append(@, Call("join", code, Nil, Nil, "", "", "select"))]
  /\ UNCHANGED <<build, rooms, view, playerId, lobbyPlayers, gameState,
                 previousStateRef, inbox, initFetch, timerVars, flagVars>>

\* joinGameRoom returns the id: handleJoinRoom's setPlayerId, then the Lobby
\* effect; after a rejection the catch block.  (Nothing is left to set once
\* the Lobby is unmounted.)
handleJoinRoomAnswer(c, i) ==
  /\ i \in 1..Len(async[c]) /\ async[c][i].kind = "join"
  /\ async[c][i].stage \in {"applied", "rejected"}
  /\ async' = DropCall(c, i)
  /\ IF LobbyMounted(c) /\ async[c][i].stage = "applied"
     THEN /\ playerId' = [playerId EXCEPT ![c] = async[c][i].id]
          /\ LobbySubscribes(c, roomId[c], async[c][i].id)
          /\ UNCHANGED lobbyError
     ELSE /\ lobbyError' = [lobbyError EXCEPT ![c] =
               IF LobbyMounted(c)
               THEN "Failed to join room. Please check the room code and try again."
               ELSE @]
          /\ UNCHANGED <<playerId, view, inbox, initFetch>>
  /\ UNCHANGED <<build, clicks, rooms, roomId, lobbyPlayers, gameState, previousStateRef,
                 timerVars, flagVars>>

\* !players.find(p => p.id === playerId)?.isReady
toggledReady(players, id) ==
  IF id \in Ids(players) THEN ~players[findIndex(players, id) + 1].isReady ELSE TRUE

\* toggleReady, up to the select of updatePlayerStatus being sent.  The button
\* is on the client's own row of its local player list.
toggleReady(c) ==
  /\ view[c] = "lobby" /\ playerId[c] \in Ids(lobbyPlayers[c])
  /\ clicks < MaxClicks /\ Awaiting < MaxCalls
  /\ clicks' = clicks + 1
  /\ async' = [async EXCEPT ![c] =
       Append(@, Call("ready", roomId[c], Nil, Nil,
                      IF toggledReady(lobbyPlayers[c], playerId[c]) THEN "true" ELSE "false",
                      playerId[c], "select"))]
  /\ UNCHANGED <<build, rooms, roomId, view, playerId, lobbyPlayers, lobbyError, gameState,
                 previousStateRef, inbox, initFetch, timerVars, flagVars>>

\* updatePlayerStatus returns and toggleReady has nothing left to do; after a
\* rejection the catch block
toggleReadyAnswer(c, i) ==
  /\ i \in 1..Len(async[c]) /\ async[c][i].kind = "ready"
  /\ async[c][i].stage \in {"applied", "rejected"}
  /\ async' = DropCall(c, i)
  /\ lobbyError' = [lobbyError EXCEPT ![c] =
       IF LobbyMounted(c) /\ async[c][i].stage = "rejected"
       THEN "Failed to update ready status. Please try again."
       ELSE @]
  /\ UNCHANGED <<build, clicks, rooms, roomId, view, playerId, lobbyPlayers, gameState,
                 previousStateRef, inbox, initFetch, timerVars, flagVars>>

\* a start test without the `every` over isReady
canStartNonEmpty(players) == Len(players) > 0

\* The Lobby's auto-start test on a received game state
canStart(players) == AllReady(players)

\* TextAdventure.tsx, "Initialize game state if not set"
initialGameState(players) ==
  [nil |-> FALSE, currentLocation |-> "cave",
   inventory |-> [i \in Ids(players) |-> <<>>],
   history |-> << Line("welcome", "", "") >>,
   currentPlayer |-> players[1].id, players |-> players, ext |-> TRUE,
   gameStarted |-> FALSE,
   equippedItems |-> [i \in Ids(players) |-> <<>>], foundItems |-> <<>>]

\* page.tsx handleStartGame, called by a Lobby callback whose closure holds
\* `id`.  The first call unmounts the Lobby (unsubscribe) and mounts
\* TextAdventure, which subscribes (channel and initial select);
\* TextAdventure.tsx also sets its initial game state from the players handed
\* over.  A later call, from a select the Lobby had left unanswered, hands the
\* mounted TextAdventure its props again; its subscription effect runs again
\* when the roomId is another.
handleStartGame(c, players, r, id, inboxRest, fetchRest) ==
  /\ roomId' = [roomId EXCEPT ![c] = r]
  /\ playerId' = [playerId EXCEPT ![c] = id]
  /\ IF view[c] = "game"
     THEN /\ inbox' = [inbox EXCEPT ![c] = IF r = roomId[c] THEN inboxRest ELSE <<>>]
          /\ initFetch' = [initFetch EXCEPT ![c] =
               IF r = roomId[c] THEN fetchRest ELSE Append(fetchRest, Unread("game", r, id))]
          /\ UNCHANGED <<view, lobbyPlayers, gameState, previousStateRef>>
     ELSE /\ view' = [view EXCEPT ![c] = "game"]
          /\ lobbyPlayers' = [lobbyPlayers EXCEPT ![c] = <<>>]
          /\ inbox' = [inbox EXCEPT ![c] = <<>>]
          /\ initFetch' = [initFetch EXCEPT ![c] = Append(fetchRest, Unread("game", r, id))]
          /\ gameState' = [gameState EXCEPT ![c] =
               IF build = "src" THEN initialGameState(players) ELSE Nil]
          /\ previousStateRef' = [previousStateRef EXCEPT ![c] =
               IF build = "src" THEN initialGameState(players) ELSE Nil]

\* The Lobby's subscription callback on `doc`, its closure holding `id`:
\* setPlayers, and onStartGame when everyone is ready
LobbyCallback(c, doc, r, id, inboxRest, fetchRest) ==
  IF canStart(doc.players)
  THEN handleStartGame(c, doc.players, r, id, inboxRest, fetchRest)
  ELSE /\ lobbyPlayers' = [lobbyPlayers EXCEPT ![c] =
            IF view[c] = "game" THEN @ ELSE doc.players]
       /\ inbox' = [inbox EXCEPT ![c] = inboxRest]
       /\ initFetch' = [initFetch EXCEPT ![c] = fetchRest]
       /\ UNCHANGED <<view, roomId, playerId, gameState, previousStateRef>>

\* A realtime notification reaches the Lobby
LobbyReceive(c) ==
  /\ view[c] = "lobby" /\ inbox[c] # <<>>
  /\ LobbyCallback(c, Head(inbox[c]), roomId[c], playerId[c], Tail(inbox[c]), initFetch[c])
  /\ UNCHANGED <<build, clicks, rooms, lobbyError, async, timerVars, flagVars>>

\* The answer to an initial select of the Lobby reaches its callback; the
\* subscription it was sent for may be gone by then
LobbyInitialFetch(c, i) ==
  /\ view[c] # "crashed"
  /\ i \in 1..Len(initFetch[c]) /\ initFetch[c][i].read /\ initFetch[c][i].to = "lobby"
  /\ LobbyCallback(c, initFetch[c][i].doc, initFetch[c][i].room, initFetch[c][i].id, inbox[c], RemoveAt(initFetch[c], i))
  /\ UNCHANGED <<build, clicks, rooms, lobbyError, async, timerVars, flagVars>>

----------------------------------------------------------------------------
(* llm.ts as of src/unnamed/part_000: processGameAction and its fallback *)

\* action.toLowerCase().includes('look')
includesLook(action) == action \in {"look"}

\* action.toLowerCase().includes('pick up') || action.toLowerCase().includes('take')
includesTake(action) == action \in {"take", "take ", "take torch", "take chest"}

\* action.toLowerCase().replace(/(?:pick up|take)\s+/, '').trim()
itemToPick(action) ==
  CASE action = "take torch" -> "torch"
    [] action = "take chest" -> "chest"
    [] action = "take " -> ""
    [] OTHER -> action

\* FALLBACK_RESPONSES[location] || FALLBACK_RESPONSES.cave, its first entry's location
fallbackLocation(location) ==
  IF location \in {"cave", "forest", "dragon"} THEN location ELSE "cave"

\* number of entries of FALLBACK_RESPONSES[location] || FALLBACK_RESPONSES.cave
fallbackCount(location) == IF fallbackLocation(location) = "cave" THEN 2 ELSE 1

\* getFallbackResponse; rnd is Math.floor(Math.random() * responses.length)
getFallbackResponse(context, action, rnd) ==
  IF includesLook(action)
  THEN [response |-> Line("fallback", "look", fallbackLocation(context.currentLocation)),
        location |-> fallbackLocation(context.currentLocation),
        newItems |-> <<>>, removeItems |-> <<>>, equippedItems |-> <<>>, foundItems |-> <<>>]
  ELSE IF includesTake(action)
  THEN [response |-> Line("fallback", "take", fallbackLocation(context.currentLocation)),
        location |-> fallbackLocation(context.currentLocation),
        newItems |-> << "mysterious item" >>, removeItems |-> <<>>,
        equippedItems |-> <<>>, foundItems |-> <<>>]
  ELSE [response |-> Line("fallback", IF rnd = 0 THEN "first" ELSE "second",
                          fallbackLocation(context.currentLocation)),
        location |-> fallbackLocation(context.currentLocation),
        newItems |-> <<>>, removeItems |-> <<>>, equippedItems |-> <<>>, foundItems |-> <<>>]

\* What the completion service does to one call: it may fail (network error,
\* rate limit, other non-2xx answer), or answer with a narrative that names at
\* most one item (mention, "" for none) which isItemPickable accepts or not
\* and that reports a location ("" for none).
RateLimited == [status |-> "rate_limit", mention |-> "", pickable |-> FALSE, location |-> ""]

NetworkError == [status |-> "network", mention |-> "", pickable |-> FALSE, location |-> ""]

LlmOutcomes ==
  { [status |-> "ok", mention |-> "", pickable |-> FALSE, location |-> ""],
    [status |-> "ok", mention |-> "", pickable |-> FALSE, location |-> "dragon's lair"],
    [status |-> "ok", mention |-> "torch", pickable |-> TRUE, location |-> ""],
    [status |-> "ok", mention |-> "Torch", pickable |-> TRUE, location |-> ""],
    [status |-> "ok", mention |-> "chest", pickable |-> TRUE, location |-> ""],
    [status |-> "ok", mention |-> "wall", pickable |-> FALSE, location |-> ""],
    RateLimited,
    NetworkError }

\* String.prototype.toLowerCase on the item names in use
toLowerCase(str) == IF str = "Torch" THEN "torch" ELSE str

\* an extraction that appends whatever pickable item the narrative names
extractFoundItemsNoDedup(context, llm) ==
  IF llm.mention # "" /\ llm.pickable
  THEN Append(context.foundItems, toLowerCase(llm.mention))
  ELSE context.foundItems

\* "Extract found items from the response": context.foundItems plus the item
\* the narrative names, in lower case, when pickable and not yet included
extractFoundItems(context, llm) ==
  IF llm.mention # "" /\ llm.pickable
     /\ ~SeqHas(context.foundItems, toLowerCase(llm.mention))
  THEN Append(context.foundItems, toLowerCase(llm.mention))
  ELSE context.foundItems

\* the word test of the pickup matching: every word of the command occurs in
\* (or contains) a word of the item name; the empty command matches every item
itemMatches(item, wanted) == wanted = "" \/ wanted = item

\* foundItems.find(...): index of the first matching item, 0 when none
findFoundItem(foundItems, wanted) ==
  IF \E i \in 1..Len(foundItems) : itemMatches(foundItems[i], wanted)
  THEN CHOOSE i \in 1..Len(foundItems) :
         /\ itemMatches(foundItems[i], wanted)
         /\ \A j \in 1..(i - 1) : ~itemMatches(foundItems[j], wanted)
  ELSE 0

\* foundItem.toLowerCase().includes('chest') || ...includes('box')
needsOpening(item) == item \in {"chest"}

\* the try block of processGameAction throws before or at the fetch
engineThrows(context, llm) ==
  \/ ~context.inventoryDefined        \* Object.values(undefined)
  \/ ~context.equippedDefined         \* context.equippedItems.join on undefined
  \/ llm.status # "ok"                \* fetch rejects, or !response.ok

\* processGameAction
processGameAction(action, context, llm, rnd) ==
  IF engineThrows(context, llm) THEN getFallbackResponse(context, action, rnd)
  ELSE IF action = "help"
  THEN [response |-> Line("help", "", ""), location |-> context.currentLocation,
        newItems |-> <<>>, removeItems |-> <<>>,
        equippedItems |-> context.equippedItems, foundItems |-> context.foundItems]
  ELSE LET foundItems == extractFoundItems(context, llm)
           at == findFoundItem(foundItems, itemToPick(action))
           base == [response |-> Line("narrative", "", ""),
                    location |-> context.currentLocation,
                    newItems |-> <<>>, removeItems |-> <<>>,
                    equippedItems |-> context.equippedItems, foundItems |-> foundItems]
       IN IF includesTake(action)
          THEN IF at # 0
               THEN IF needsOpening(foundItems[at])
                    THEN [base EXCEPT !.response = Line("open first", "", foundItems[at]),
                                      !.foundItems = RemoveAt(foundItems, at)]
                    ELSE [base EXCEPT !.response = Line("pick up", "", foundItems[at]),
                                      !.newItems = << foundItems[at] >>,
                                      !.foundItems = RemoveAt(foundItems, at)]
               ELSE [base EXCEPT !.response = Line("nothing to pick up", "", "")]
          ELSE IF Len(foundItems) > 0
               THEN [base EXCEPT !.response = Line("narrative", "you found", "")]
               ELSE base

\* processGameAction of the older variant (src/app/utils/llm.ts, second
\* half): the narrative and the location of the parsed answer are passed on,
\* parsedResponse.location || context.currentLocation; items the answer
\* lists are announced and cleared
processGameActionOlder(action, context, llm, rnd) ==
  IF engineThrows(context, llm) THEN getFallbackResponse(context, action, rnd)
  ELSE IF action = "help"
  THEN [response |-> Line("help", "", ""), location |-> context.currentLocation,
        newItems |-> <<>>, removeItems |-> <<>>,
        equippedItems |-> context.equippedItems, foundItems |-> <<>>]
  ELSE [response |-> Line("narrative", IF llm.mention # "" THEN "you found" ELSE "", ""),
        location |-> IF llm.location # "" THEN llm.location ELSE context.currentLocation,
        newItems |-> <<>>, removeItems |-> <<>>, equippedItems |-> <<>>, foundItems |-> <<>>]

----------------------------------------------------------------------------
(* TextAdventure: delivery of game states *)

\* a timer effect that does not look at isTimerPaused
timerRunsWhilePaused(g, processing, paused) == ~g.nil /\ ~processing

\* part_002, timer effect: an interval exists unless !gameState, isProcessing
\* or isTimerPaused
timerRuns(g, processing, paused) == ~g.nil /\ ~processing /\ ~paused

\* part_002, "Reset timer when player changes": the effect runs when
\* gameState?.currentPlayer differs from the last render's and sets the limit
\* when the new value is truthy
resetTime(prevPlayer, newPlayer, remaining) ==
  IF newPlayer # prevPlayer /\ newPlayer # "" THEN TURN_TIME_LIMIT ELSE remaining

\* part_002 returns early, while gameState is null, ahead of its timer effect
\* and its reset effect: the render that first has a game state calls two
\* hooks more than the render before it
rendersMoreHooks(prev, next) == prev.nil /\ ~next.nil

\* The subscription callback of TextAdventure on `doc`.
\* part_002: setGameState(prev => JSON differs ? newGameState : prev).  On the
\* first game state React throws ("Rendered more hooks than during the previous
\* render"); page.tsx has no error boundary and the tree is unmounted.  From a
\* component that holds a game state, the reset effect follows the new
\* currentPlayer and the interval keeps the closure it has.
\* TextAdventure.tsx: handleGameStateUpdate against previousStateRef.
GameCallback(c, doc) ==
  IF build = "timer"
  THEN IF rendersMoreHooks(gameState[c], doc)
       THEN /\ view' = [view EXCEPT ![c] = "crashed"]
            /\ UNCHANGED <<gameState, previousStateRef, timerState, timeRemaining>>
       ELSE /\ gameState' = [gameState EXCEPT ![c] = doc]
            /\ timeRemaining' = [timeRemaining EXCEPT ![c] =
                 resetTime(gameState[c].currentPlayer, doc.currentPlayer, timeRemaining[c])]
            /\ UNCHANGED <<view, previousStateRef, timerState>>
  ELSE /\ IF doc # previousStateRef[c]
          THEN /\ previousStateRef' = [previousStateRef EXCEPT ![c] = doc]
               /\ gameState' = [gameState EXCEPT ![c] = doc]
          ELSE UNCHANGED <<previousStateRef, gameState>>
       /\ UNCHANGED <<view, timerState, timeRemaining>>

\* A realtime notification reaches TextAdventure; nothing reaches a tree that
\* was unmounted
GameReceive(c) ==
  /\ view[c] = "game" /\ inbox[c] # <<>>
  /\ GameCallback(c, Head(inbox[c]))
  /\ inbox' = [inbox EXCEPT ![c] = IF view'[c] = "crashed" THEN <<>> ELSE Tail(inbox[c])]
  /\ initFetch' = [initFetch EXCEPT ![c] = IF view'[c] = "crashed" THEN <<>> ELSE @]
  /\ UNCHANGED <<build, clicks, rooms, roomId, playerId, lobbyPlayers, lobbyError, async, isTimerPaused, flagVars>>

\* The answer to the initial select of subscribeToGameRoom reaches TextAdventure
GameInitialFetch(c, i) ==
  /\ view[c] = "game"
  /\ i \in 1..Len(initFetch[c]) /\ initFetch[c][i].read /\ initFetch[c][i].to = "game"
  /\ GameCallback(c, initFetch[c][i].doc)
  /\ inbox' = [inbox EXCEPT ![c] = IF view'[c] = "crashed" THEN <<>> ELSE @]
  /\ initFetch' = [initFetch EXCEPT ![c] =
       IF view'[c] = "crashed" THEN <<>> ELSE RemoveAt(@, i)]
  /\ UNCHANGED <<build, clicks, rooms, roomId, playerId, lobbyPlayers, lobbyError, async, isTimerPaused, flagVars>>

----------------------------------------------------------------------------
(* src/unnamed/part_002: handleCommand and handleSkipTurn *)

\* the next player: players[(findIndex(currentPlayer) + 1) % players.length].id
nextPlayerId(g) == g.players[((findIndex(g.players, g.currentPlayer) + 1) % Len(g.players)) + 1].id

\* handleSkipTurn: the document handed to updateGameState
skipTurnState(g) ==
  [g EXCEPT !.history = Append(g.history,
                           Line("skipped", findName(g.players, g.currentPlayer), "")),
            !.currentPlayer = nextPlayerId(g)]

\* handleCommand of part_002: what processGameAction returns for the context
\* it is passed, which has no equippedItems and no foundItems
engineResultP2(g, input, llm, rnd) ==
  LET context == [currentLocation |-> g.currentLocation,
                  inventoryDefined |-> g.currentPlayer \in DOMAIN g.inventory,
                  equippedDefined |-> FALSE, equippedItems |-> <<>>, foundItems |-> <<>>]
  IN processGameAction(input, context, llm, rnd)

\* result.response.includes("API usage limit has been reached")
includesLimitMessage(response) == response[1] = "api limit"

\* handleCommand of part_002, try block: the document handed to updateGameState
commandStateP2(g, input, llm, rnd) ==
  LET cur == g.currentPlayer
      result == engineResultP2(g, input, llm, rnd)
  IN [g EXCEPT !.currentLocation = result.location,
               !.history = g.history \o << Line("echo", findName(g.players, cur), input),
                                           result.response >>,
               !.inventory = Put(g.inventory, cur, g.inventory[cur] \o result.newItems),
               !.currentPlayer = nextPlayerId(g)]

\* handleCommand of part_002, catch block: the document handed to updateGameState
commandErrorStateP2(g, input) ==
  [g EXCEPT !.history = g.history \o << Line("echo", "", input), Line("error", "", "") >>]

\* the try block of part_002's handleCommand throws: the current player has no
\* inventory entry (filter on undefined)
commandThrowsP2(g) == g.currentPlayer \notin DOMAIN g.inventory

\* handleCommand (part_002) up to the await of processGameAction; the timer
\* effect clears its interval
handleCommandP2(c, input) ==
  /\ build = "timer" /\ view[c] = "game"
  /\ ~isProcessing[c] /\ ~gameState[c].nil
  /\ clicks < MaxClicks /\ Awaiting < MaxCalls
  /\ clicks' = clicks + 1
  /\ Len(gameState[c].history) < MaxHistory
  /\ isProcessing' = [isProcessing EXCEPT ![c] = TRUE]
  /\ timerState' = [timerState EXCEPT ![c] = Nil]
  /\ async' = [async EXCEPT ![c] =
       Append(@, Call("command", roomId[c], gameState[c], Nil, input, playerId[c], "engine"))]
  /\ UNCHANGED <<build, rooms, roomId, view, playerId, lobbyPlayers, lobbyError, gameState, previousStateRef,
                 inbox, initFetch, timeRemaining, isTimerPaused, error, isApiLimited, uncaught>>

\* handleCommand (part_002) from the engine's answer to updateGameState being
\* called: by the try block, or by the catch block when the try block throws
handleCommandP2Engine(c, i, llm, rnd) ==
  /\ build = "timer"
  /\ i \in 1..Len(async[c]) /\ async[c][i].kind = "command" /\ async[c][i].stage = "engine"
  /\ rnd < fallbackCount(async[c][i].snap.currentLocation)
  /\ isApiLimited' = [isApiLimited EXCEPT ![c] =
       @ \/ includesLimitMessage(
              engineResultP2(async[c][i].snap, async[c][i].arg, llm, rnd).response)]
  /\ async' = SetCall(c, i,
       IF commandThrowsP2(async[c][i].snap)
       THEN [async[c][i] EXCEPT !.kind = "recover", !.stage = "sent",
                                !.doc = commandErrorStateP2(async[c][i].snap, async[c][i].arg)]
       ELSE [async[c][i] EXCEPT !.stage = "sent",
                                !.doc = commandStateP2(async[c][i].snap, async[c][i].arg, llm, rnd)])
  /\ UNCHANGED <<build, clicks, rooms, roomId, view, playerId, lobbyPlayers, lobbyError, gameState, previousStateRef,
                 inbox, initFetch, timerVars, isProcessing, error, uncaught>>

\* handleCommand (part_002), finally block; the timer effect runs again
handleCommandP2Finish(c) ==
  /\ isProcessing' = [isProcessing EXCEPT ![c] = FALSE]
  /\ timerState' = [timerState EXCEPT ![c] =
       IF timerRuns(gameState[c], FALSE, isTimerPaused[c]) THEN gameState[c] ELSE Nil]

\* handleCommand (part_002) from the answer of updateGameState on.  The try
\* block's call: on success the finally block; on an error the catch block
\* calls updateGameState again.  The catch block's call: the finally block,
\* and on an error the rejection leaves the handler with nobody to catch it.
handleCommandP2Answer(c, i) ==
  /\ build = "timer"
  /\ i \in 1..Len(async[c]) /\ async[c][i].kind \in {"command", "recover"}
  /\ async[c][i].stage \in {"applied", "rejected"}
  /\ IF async[c][i].kind = "command" /\ async[c][i].stage = "rejected"
     THEN /\ async' = SetCall(c, i, [async[c][i] EXCEPT
               !.kind = "recover", !.stage = "sent",
               !.doc = commandErrorStateP2(async[c][i].snap, async[c][i].arg)])
          /\ UNCHANGED <<isProcessing, timerState, uncaught>>
     ELSE /\ async' = DropCall(c, i)
          /\ handleCommandP2Finish(c)
          /\ uncaught' = [uncaught EXCEPT ![c] = @ \/ async[c][i].stage = "rejected"]
  /\ UNCHANGED <<build, clicks, rooms, roomId, view, playerId, lobbyPlayers, lobbyError, gameState, previousStateRef,
                 inbox, initFetch, timeRemaining, isTimerPaused, error, isApiLimited>>

\* handleSkipTurn on the game state g its closure holds, up to updateGameState
\* being called
handleSkipTurn(c, g) ==
  /\ ~g.nil
  /\ Awaiting < MaxCalls
  /\ Len(g.history) < MaxHistory
  /\ async' = [async EXCEPT ![c] =
       Append(@, Call("skip", roomId[c], g, skipTurnState(g), "", playerId[c], "sent"))]
  /\ UNCHANGED <<build, rooms, roomId, view, playerId, lobbyPlayers, lobbyError, gameState, previousStateRef,
                 inbox, initFetch, timerState, isTimerPaused, flagVars>>

\* updateGameState returns to handleSkipTurn, which has nothing left to do and
\* no try block around the call
handleSkipTurnAnswer(c, i) ==
  /\ build = "timer"
  /\ i \in 1..Len(async[c]) /\ async[c][i].kind = "skip"
  /\ async[c][i].stage \in {"applied", "rejected"}
  /\ async' = DropCall(c, i)
  /\ uncaught' = [uncaught EXCEPT ![c] = @ \/ async[c][i].stage = "rejected"]
  /\ UNCHANGED <<build, clicks, rooms, roomId, view, playerId, lobbyPlayers, lobbyError, gameState, previousStateRef,
                 inbox, initFetch, timerVars, isProcessing, error, isApiLimited>>

\* the updater of the interval's setTimeRemaining
tickTime(prev) == IF prev <= 1 THEN TURN_TIME_LIMIT ELSE prev - 1

\* The interval's callback at prev <= 1: handleSkipTurn of the render the
\* timer effect last ran in, and the limit again
TimerExpires(c) ==
  /\ build = "timer" /\ view[c] = "game" /\ ~timerState[c].nil
  /\ timeRemaining[c] <= 1
  /\ handleSkipTurn(c, timerState[c])
  /\ timeRemaining' = [timeRemaining EXCEPT ![c] = tickTime(timeRemaining[c])]
  /\ UNCHANGED clicks

\* The interval's callback at prev > 1, a second after the last: the countdown
TimerCounts(c) ==
  /\ build = "timer" /\ view[c] = "game" /\ ~timerState[c].nil
  /\ timeRemaining[c] > 1
  /\ timeRemaining' = [timeRemaining EXCEPT ![c] = tickTime(timeRemaining[c])]
  /\ UNCHANGED <<build, clicks, rooms, roomId, view, playerId, lobbyPlayers, lobbyError, gameState,
                 previousStateRef, inbox, initFetch, async, timerState, isTimerPaused, flagVars>>

\* The Skip Turn button: handleSkipTurn of the current render
SkipTurnButton(c) ==
  /\ build = "timer" /\ view[c] = "game"
  /\ clicks < MaxClicks
  /\ clicks' = clicks + 1
  /\ handleSkipTurn(c, gameState[c])
  /\ UNCHANGED timeRemaining

\* an extension with no cap
extendTimeUncapped(prev) == prev + ExtendSeconds

\* Math.min(prev + 30, TURN_TIME_LIMIT)
extendTime(prev) ==
  IF prev + ExtendSeconds < TURN_TIME_LIMIT THEN prev + ExtendSeconds ELSE TURN_TIME_LIMIT

\* handleExtendTime: the +30s button
handleExtendTime(c) ==
  /\ build = "timer" /\ view[c] = "game" /\ ~gameState[c].nil
  /\ clicks < MaxClicks
  /\ clicks' = clicks + 1
  /\ timeRemaining' = [timeRemaining EXCEPT ![c] = extendTime(timeRemaining[c])]
  /\ UNCHANGED <<build, rooms, roomId, view, playerId, lobbyPlayers, lobbyError, gameState, previousStateRef,
                 inbox, initFetch, async, timerState, isTimerPaused, flagVars>>

\* toggleTimer: the Pause / Resume button; the timer effect runs again
toggleTimer(c) ==
  /\ build = "timer" /\ view[c] = "game" /\ ~gameState[c].nil
  /\ clicks < MaxClicks
  /\ clicks' = clicks + 1
  /\ isTimerPaused' = [isTimerPaused EXCEPT ![c] = ~isTimerPaused[c]]
  /\ timerState' = [timerState EXCEPT ![c] =
       IF timerRuns(gameState[c], isProcessing[c], ~isTimerPaused[c])
       THEN gameState[c] ELSE Nil]
  /\ UNCHANGED <<build, rooms, roomId, view, playerId, lobbyPlayers, lobbyError, gameState, previousStateRef,
                 inbox, initFetch, async, timeRemaining, flagVars>>

----------------------------------------------------------------------------
(* src/app/components/TextAdventure.tsx: handleCommand *)

\* a try block whose logging reads no field that may be missing
commandThrowsNever(g) == FALSE

\* the try block throws before the engine call: the logging reads
\* gameState.equippedItems[gameState.currentPlayer] of a document without it
commandThrows(g) == ~g.ext

Lookup(map, key) == IF key \in DOMAIN map THEN map[key] ELSE <<>>

\* handleCommand: the context handed to processGameAction
commandContext(g) ==
  [currentLocation |-> g.currentLocation, inventoryDefined |-> TRUE,
   equippedDefined |-> TRUE, equippedItems |-> Lookup(g.equippedItems, g.currentPlayer),
   foundItems |-> g.foundItems]

\* an update that hands the new items to every player with an inventory
updatedGameStateEveryone(g, result) ==
  [g EXCEPT !.history = Append(g.history, result.response),
            !.currentLocation = result.location,
            !.inventory = [k \in DOMAIN g.inventory |-> g.inventory[k] \o result.newItems],
            !.equippedItems = Put(g.equippedItems, g.currentPlayer,
                                  Lookup(g.equippedItems, g.currentPlayer) \o result.equippedItems),
            !.foundItems = result.foundItems]

\* handleCommand: updatedGameState for the engine's result
updatedGameState(g, result) ==
  LET cur == g.currentPlayer
  IN [g EXCEPT !.history = Append(g.history, result.response),
               !.currentLocation = result.location,
               !.inventory = Put(g.inventory, cur, Lookup(g.inventory, cur) \o result.newItems),
               !.equippedItems = Put(g.equippedItems, cur,
                                     Lookup(g.equippedItems, cur) \o result.equippedItems),
               !.foundItems = result.foundItems]

\* handleCommand: updatedGameState with the engine of src/unnamed/part_000
commandState(g, command, llm, rnd) ==
  updatedGameState(g, processGameAction(command, commandContext(g), llm, rnd))

\* handleCommand: updatedGameState with the older engine of src/app/utils/llm.ts
commandStateOlder(g, command, llm, rnd) ==
  updatedGameState(g, processGameActionOlder(command, commandContext(g), llm, rnd))

\* handleCommand up to the await of processGameAction (or through its catch
\* and finally, when the logging throws).  Its only early return is on a blank
\* command; the flag it sets is isLoading (kept in isProcessing[c]), and the
\* form is disabled on the component's isProcessing, which no code of this
\* component sets: a call is accepted while an earlier one awaits, and
\* captures the game state rendered at the time.
handleCommand(c, command) ==
  /\ build = "src" /\ view[c] = "game" /\ ~gameState[c].nil
  /\ clicks < MaxClicks /\ Awaiting < MaxCalls
  /\ clicks' = clicks + 1
  /\ Len(gameState[c].history) < MaxHistory
  /\ IF commandThrows(gameState[c])
     THEN /\ error' = [error EXCEPT ![c] = "TypeError"]
          /\ isProcessing' = [isProcessing EXCEPT ![c] = FALSE]
          /\ UNCHANGED async
     ELSE /\ error' = [error EXCEPT ![c] = ""]
          /\ isProcessing' = [isProcessing EXCEPT ![c] = TRUE]
          /\ async' = [async EXCEPT ![c] =
               Append(@, Call("command", roomId[c], gameState[c], Nil, command, playerId[c], "engine"))]
  /\ UNCHANGED <<build, rooms, roomId, view, playerId, lobbyPlayers, lobbyError, gameState, previousStateRef,
                 inbox, initFetch, timerVars, isApiLimited, uncaught>>

\* handleCommand from the engine's answer to its update being sent, with the
\* older engine
handleCommandEngineOlder(c, i, llm, rnd) ==
  /\ build = "src"
  /\ i \in 1..Len(async[c]) /\ async[c][i].kind = "command" /\ async[c][i].stage = "engine"
  /\ rnd < fallbackCount(async[c][i].snap.currentLocation)
  /\ async' = SetCall(c, i, [async[c][i] EXCEPT
       !.doc = commandStateOlder(async[c][i].snap, async[c][i].arg, llm, rnd),
       !.stage = "rooms"])
  /\ UNCHANGED <<build, clicks, rooms, roomId, view, playerId, lobbyPlayers, lobbyError, gameState, previousStateRef,
                 inbox, initFetch, timerVars, flagVars>>

\* handleCommand from the engine's answer to its update being sent: the update
\* goes to the table 'rooms', not to game_rooms
handleCommandEngine(c, i, llm, rnd) ==
  /\ build = "src"
  /\ i \in 1..Len(async[c]) /\ async[c][i].kind = "command" /\ async[c][i].stage = "engine"
  /\ rnd < fallbackCount(async[c][i].snap.currentLocation)
  /\ async' = SetCall(c, i, [async[c][i] EXCEPT
       !.doc = commandState(async[c][i].snap, async[c][i].arg, llm, rnd),
       !.stage = "rooms"])
  /\ UNCHANGED <<build, clicks, rooms, roomId, view, playerId, lobbyPlayers, lobbyError, gameState, previousStateRef,
                 inbox, initFetch, timerVars, flagVars>>

\* an answer step that passes the store's error on instead of handling it
handleCommandAnswerRethrows(c, i, updateError) ==
  /\ build = "src"
  /\ i \in 1..Len(async[c]) /\ async[c][i].kind = "command" /\ async[c][i].stage = "rooms"
  /\ IF updateError
     THEN /\ uncaught' = [uncaught EXCEPT ![c] = TRUE]
          /\ UNCHANGED gameState
     ELSE /\ gameState' = [gameState EXCEPT ![c] = async[c][i].doc]
          /\ UNCHANGED uncaught
  /\ isProcessing' = [isProcessing EXCEPT ![c] = FALSE]
  /\ async' = DropCall(c, i)
  /\ UNCHANGED <<build, clicks, rooms, roomId, view, playerId, lobbyPlayers, lobbyError, previousStateRef,
                 inbox, initFetch, timerVars, isApiLimited, error>>

\* an answer step with no finally block: the loading flag stays set
handleCommandAnswerKeepsLoading(c, i, updateError) ==
  /\ build = "src"
  /\ i \in 1..Len(async[c]) /\ async[c][i].kind = "command" /\ async[c][i].stage = "rooms"
  /\ IF updateError
     THEN /\ error' = [error EXCEPT ![c] = "Failed to update game state"]
          /\ UNCHANGED gameState
     ELSE /\ gameState' = [gameState EXCEPT ![c] = async[c][i].doc]
          /\ UNCHANGED error
  /\ async' = DropCall(c, i)
  /\ UNCHANGED <<build, clicks, rooms, roomId, view, playerId, lobbyPlayers, lobbyError, previousStateRef,
                 inbox, initFetch, timerVars, isProcessing, isApiLimited, uncaught>>

\* handleCommand from the answer to its update on: the update failed, or it
\* changed no row of game_rooms.  On success the local state is replaced by
\* the state computed from the one captured at submission.
handleCommandAnswer(c, i, updateError) ==
  /\ build = "src"
  /\ i \in 1..Len(async[c]) /\ async[c][i].kind = "command" /\ async[c][i].stage = "rooms"
  /\ IF updateError
     THEN /\ error' = [error EXCEPT ![c] = "Failed to update game state"]
          /\ UNCHANGED gameState
     ELSE /\ gameState' = [gameState EXCEPT ![c] = async[c][i].doc]
          /\ UNCHANGED error
  /\ isProcessing' = [isProcessing EXCEPT ![c] = FALSE]
  /\ async' = DropCall(c, i)
  /\ UNCHANGED <<build, clicks, rooms, roomId, view, playerId, lobbyPlayers, lobbyError, previousStateRef,
                 inbox, initFetch, timerVars, isApiLimited, uncaught>>

\* the number of handleCommand calls of client c between their start and
\* their end
callsInFlight(c) == Cardinality({i \in 1..Len(async[c]) : async[c][i].kind \in {"command", "recover"}})

----------------------------------------------------------------------------
(* Specifications *)

\* the indices of the awaiting calls and selects
CallIdx == 1..MaxCalls
FetchIdx == 1..(MaxCalls + MaxRoster)

\* the room the properties look at: the first row of game_rooms
room == rooms[1]

\* the buttons of the lobby
LobbyNext(c) ==
  \/ handleCreateRoom(c)
  \/ \E code \in RoomCodes : handleJoinRoom(c, code)
  \/ toggleReady(c)

\* the store's steps on the calls of the lobby and on the initial selects
LobbyStore(c) ==
  \/ \E i \in CallIdx : StoreInserts(c, i)
  \/ \E i \in CallIdx, id \in RandomIds : joinGameRoomSelect(c, i, id)
  \/ \E i \in CallIdx : updatePlayerStatusSelect(c, i)
  \/ \E i \in CallIdx : StoreApplies(c, i)
  \/ \E i \in CallIdx : StoreRejects(c, i)
  \/ \E i \in FetchIdx : StoreReads(c, i)

\* the answers to the handlers of the lobby and the deliveries to the
\* subscribers
LobbySteps(c) ==
  \/ \E i \in CallIdx : handleCreateRoomAnswer(c, i)
  \/ \E i \in CallIdx : handleJoinRoomAnswer(c, i)
  \/ \E i \in CallIdx : toggleReadyAnswer(c, i)
  \/ LobbyReceive(c)
  \/ \E i \in FetchIdx : LobbyInitialFetch(c, i)
  \/ GameReceive(c)
  \/ \E i \in FetchIdx : GameInitialFetch(c, i)

NextLobby == \E c \in Clients : LobbyNext(c) \/ LobbyStore(c) \/ LobbySteps(c)

\* every client runs src/app/components/TextAdventure.tsx
InitSrc == Init /\ build = "src"

\* create, join, ready and start, with no command and no skip
SpecLobby == InitSrc /\ [][NextLobby]_vars

----------------------------------------------------------------------------
(* The game components by themselves *)

\* the document of a room whose players have all pressed Ready
startedRoom(players) ==
  [createGameRoom EXCEPT !.players = players,
                         !.inventory = [i \in Ids(players) |-> <<>>]]

\* the rosters the components are examined on
StartedRosters ==
  { << [id |-> "p1", name |-> "Ann", isReady |-> TRUE] >>,
    << [id |-> "p1", name |-> "Ann", isReady |-> TRUE],
       [id |-> "p2", name |-> "Bob", isReady |-> TRUE] >> }

\* the player id a client holds in these rosters
StartedId(c) == IF c = "c1" THEN "p1" ELSE "p2"

\* the game of a started room on a screen: the lobby is through, page.tsx has
\* mounted TextAdventure with the roster, the room and the player id, and the
\* client is subscribed.  g is the game state on the screen, t the one the
\* interval holds, f the initial selects under way.
Started(b, players, mounted, g, t, f) ==
  /\ build = b
  /\ clicks = 0
  /\ rooms = [r \in RoomIds |-> IF r = 1 THEN startedRoom(players) ELSE Nil]
  /\ roomId = [c \in Clients |-> IF c \in mounted THEN 1 ELSE 0]
  /\ view = [c \in Clients |-> IF c \in mounted THEN "game" ELSE "home"]
  /\ playerId = [c \in Clients |-> IF c \in mounted THEN StartedId(c) ELSE ""]
  /\ lobbyError = [c \in Clients |-> ""]
  /\ lobbyPlayers = [c \in Clients |-> <<>>]
  /\ gameState = [c \in Clients |-> IF c \in mounted THEN g ELSE Nil]
  /\ previousStateRef = [c \in Clients |-> IF c \in mounted /\ b = "src" THEN g ELSE Nil]
  /\ inbox = [c \in Clients |-> <<>>]
  /\ initFetch = [c \in Clients |-> IF c \in mounted THEN f[c] ELSE <<>>]
  /\ async = [c \in Clients |-> <<>>]
  /\ isProcessing = [c \in Clients |-> FALSE]
  /\ timerState = [c \in Clients |-> IF c \in mounted THEN t ELSE Nil]
  /\ error = [c \in Clients |-> ""]
  /\ timeRemaining = [c \in Clients |-> TURN_TIME_LIMIT]
  /\ isTimerPaused = [c \in Clients |-> FALSE]
  /\ isApiLimited = [c \in Clients |-> FALSE]
  /\ uncaught = [c \in Clients |-> FALSE]

\* TextAdventure.tsx just mounted by handleStartGame on the screen of every
\* player of the roster: its initial game state set, its initial select sent
InitGame ==
  \E players \in StartedRosters :
    Started("src", players,
            {c \in Clients : StartedId(c) \in Ids(players)},
            initialGameState(players), Nil,
            [c \in Clients |-> << Unread("game", 1, StartedId(c)) >>])

\* TextAdventure.tsx just mounted on the first client's screen, the other
\* players' screens elsewhere
InitFirst ==
  \E players \in StartedRosters :
    Started("src", players, {"c1"}, initialGameState(players), Nil,
            [c \in Clients |-> << Unread("game", 1, StartedId(c)) >>])

\* Inputs of the handlers and effects of part_002: a game state on the first
\* client's screen (the document of a room of two players whose lobby is
\* through) and an interval holding it.  No run of the program gets there, the component being
\* unmounted at its first document (see GameCallback, InitTimed); what is
\* examined from here is what the handlers compute on every such input, and a
\* statement that fails from here is not thereby refuted.
InitHandlers ==
  \E players \in {r \in StartedRosters : Len(r) = 2} :
    Started("timer", players, {"c1"}, startedRoom(players), startedRoom(players),
            [c \in Clients |-> <<>>])

\* the deliveries of TextAdventure.tsx, whose writes go past game_rooms
GameFetch(c) ==
  \/ \E i \in FetchIdx : StoreReads(c, i)
  \/ \E i \in FetchIdx : GameInitialFetch(c, i)

\* the game of src/app/components/TextAdventure.tsx
GameSrc(c) ==
  \/ \E command \in Commands : handleCommand(c, command)
  \/ \E i \in CallIdx, llm \in LlmOutcomes, rnd \in 0..1 : handleCommandEngine(c, i, llm, rnd)
  \/ \E i \in CallIdx, updateError \in BOOLEAN : handleCommandAnswer(c, i, updateError)

\* the game of src/app/components/TextAdventure.tsx with every kind of
\* command typed
GameEngine(c) ==
  \/ \E command \in EngineCommands : handleCommand(c, command)
  \/ \E i \in CallIdx, llm \in LlmOutcomes, rnd \in 0..1 : handleCommandEngine(c, i, llm, rnd)
  \/ \E i \in CallIdx, updateError \in BOOLEAN : handleCommandAnswer(c, i, updateError)

\* the game of src/app/components/TextAdventure.tsx with the older engine of
\* src/app/utils/llm.ts
GameOlder(c) ==
  \/ \E command \in Commands : handleCommand(c, command)
  \/ \E i \in CallIdx, llm \in LlmOutcomes, rnd \in 0..1 : handleCommandEngineOlder(c, i, llm, rnd)
  \/ \E i \in CallIdx, updateError \in BOOLEAN : handleCommandAnswer(c, i, updateError)

NextSrc == \E c \in Clients : GameFetch(c) \/ GameSrc(c)

NextEngine == \E c \in Clients : GameFetch(c) \/ GameEngine(c)

NextOlder == \E c \in Clients : GameFetch(c) \/ GameOlder(c)

\* src/app/components/TextAdventure.tsx, every player at the command form
SpecSrc == InitGame /\ [][NextSrc]_vars

\* src/app/components/TextAdventure.tsx and the engine of src/unnamed/part_000
SpecEngine == InitFirst /\ [][NextEngine]_vars

\* src/app/components/TextAdventure.tsx and the older engine of src/app/utils/llm.ts
SpecOlder == InitFirst /\ [][NextOlder]_vars

\* the game of src/unnamed/part_002: its timer second by second, its buttons
\* and its command form (submitted with "look"), the store applying or
\* rejecting the updates it is sent
GameClock(c) ==
  \/ GameReceive(c)
  \/ TimerCounts(c)
  \/ TimerExpires(c)
  \/ handleExtendTime(c)
  \/ toggleTimer(c)
  \/ SkipTurnButton(c)
  \/ handleCommandP2(c, "look")
  \/ \E i \in CallIdx, llm \in LlmOutcomes, rnd \in 0..1 : handleCommandP2Engine(c, i, llm, rnd)
  \/ \E i \in CallIdx : handleCommandP2Answer(c, i)
  \/ \E i \in CallIdx : handleSkipTurnAnswer(c, i)
  \/ \E i \in CallIdx : StoreApplies(c, i)
  \/ \E i \in CallIdx : StoreRejects(c, i)

NextClock == \E c \in Clients : GameClock(c)

\* the handlers and effects of src/unnamed/part_002 on their inputs
SpecHandlers == InitHandlers /\ [][NextClock]_vars

\* the command handler of src/app/components/TextAdventure.tsx (part_002 never
\* renders its form: see InitTimed)
GameProcessing(c) ==
  \/ GameFetch(c)
  \/ \E command \in Commands : handleCommand(c, command)
  \/ \E i \in CallIdx, llm \in LlmOutcomes, rnd \in 0..1 : handleCommandEngine(c, i, llm, rnd)
  \/ \E i \in CallIdx, updateError \in BOOLEAN : handleCommandAnswer(c, i, updateError)

NextProcessing == \E c \in Clients : GameProcessing(c)

\* TextAdventure.tsx on the first client's screen, every engine call and every
\* store call of its handler returning or failing in the end: a pending
\* promise that settles has its continuation run by the event loop, so the
\* step after an await stays enabled until it is taken
SpecProcessing ==
  /\ InitFirst /\ [][NextProcessing]_vars
  /\ \A i \in CallIdx :
       /\ WF_vars(\E llm \in LlmOutcomes, rnd \in 0..1 : handleCommandEngine("c1", i, llm, rnd))
       /\ WF_vars(\E updateError \in BOOLEAN : handleCommandAnswer("c1", i, updateError))

\* every client runs src/unnamed/part_002
InitTimed == Init /\ build = "timer"

\* the program with src/unnamed/part_002 as its game screen, from the home
\* form on: the lobby, the start, and the first document delivered to the
\* mounted component.  The store executes what it is sent, answers reach
\* their handlers and documents their callbacks (the event loop runs every
\* continuation that is ready); nobody is bound to press a button.  No
\* interval is ever created (timerState stays nil), so the steps of the
\* timer, of its buttons and of the command form are never enabled here.
SpecTimed ==
  /\ InitTimed /\ [][NextLobby]_vars
  /\ \A c \in Clients : WF_vars(LobbyStore(c) \/ LobbySteps(c))

Next ==
  \E c \in Clients :
    \/ LobbyNext(c) \/ LobbyStore(c) \/ LobbySteps(c)
    \/ GameFetch(c) \/ GameSrc(c) \/ GameEngine(c) \/ GameOlder(c)
    \/ GameClock(c) \/ GameProcessing(c)

Spec == Init /\ [][Next]_vars

----------------------------------------------------------------------------
(* Properties of the turn *)

\* C1: an action submitted by a client whose player id is not the holder of
\* the turn is rejected: the engine is called only for a submission of the
\* client whose player id is the current player of the game state it was
\* submitted from.
C1_OnlyTurnHolderReachesEngine ==
  \A c \in Clients : \A i \in 1..Len(async[c]) :
    async[c][i].kind = "command" => async[c][i].snap.currentPlayer = async[c][i].id

\* C2: turn order is round-robin: every accepted action (handleCommand has
\* replaced the client's game state) moves the turn from the roster member at
\* position i of the submitted game state to the member at (i + 1) mod N.
C2_AcceptedActionAdvancesTurn ==
  [][\A c \in Clients : \A k \in CallIdx :
       handleCommandAnswer(c, k, FALSE)
         => LET players == async[c][k].snap.players
                i == findIndex(players, async[c][k].snap.currentPlayer)
            IN /\ i >= 0
               /\ gameState'[c].currentPlayer = players[((i + 1) % Len(players)) + 1].id]_vars

\* C3: in every state in which the game has started (some client has left
\* the lobby for the game), the stored current player is the id of a member
\* of the stored, non-empty roster.
C3_StoredTurnHolderInRoster ==
  (\E c \in Clients : view[c] = "game")
    => /\ Len(room.players) > 0
       /\ room.currentPlayer \in Ids(room.players)

\* C6: an engine failure never halts the turn: an accepted action whose
\* narrative is the fallback still hands the turn to the next roster member.
C6_FallbackStillAdvancesTurn ==
  [][\A c \in Clients : \A k \in CallIdx :
       (/\ handleCommandAnswer(c, k, FALSE)
        /\ gameState'[c].history[Len(gameState'[c].history)][1] = "fallback")
         => LET players == async[c][k].snap.players
                i == findIndex(players, async[c][k].snap.currentPlayer)
            IN gameState'[c].currentPlayer = players[((i + 1) % Len(players)) + 1].id]_vars

\* the game states on their way to the callback of client c
Deliverable(c) ==
  {inbox[c][k] : k \in DOMAIN inbox[c]}
    \cup {initFetch[c][k].doc : k \in {j \in DOMAIN initFetch[c] : initFetch[c][j].read}}

\* C8: the started flag is guarded and monotonic: a client leaves the lobby
\* for the game only on a delivered game state whose roster is non-empty with
\* every player ready, and a client in the game is not back in the lobby
\* whatever is delivered afterwards.
C8_StartGuardedAndMonotonic ==
  [][\A c \in Clients :
       /\ (view[c] \in {"home", "lobby"} /\ view'[c] = "game") =>
             \E doc \in Deliverable(c) :
                  /\ ~doc.nil
                  /\ Len(doc.players) > 0
                  /\ \A k \in 1..Len(doc.players) : doc.players[k].isReady
       /\ view[c] \in {"game", "crashed"} => view'[c] \in {"game", "crashed"}]_vars

\* C8, its case: a client in the game has been delivered a game state in
\* which a player is not ready
C8_StartedAndLaterNotReady ==
  \E c \in Clients :
    /\ view[c] = "game"
    /\ ~gameState[c].nil /\ ~gameState[c].ext
    /\ \E k \in 1..Len(gameState[c].players) : ~gameState[c].players[k].isReady

\* C9: at the instant a client starts the game, the first roster member
\* holds the turn both in the stored game state and in the client's own.
C9_FirstRosterMemberHoldsFirstTurn ==
  [][\A c \in Clients :
       (view[c] = "lobby" /\ view'[c] = "game") =>
         /\ room'.currentPlayer = room'.players[1].id
         /\ ~gameState'[c].nil => gameState'[c].currentPlayer = room'.players[1].id]_vars

\* C10: a join on a started session is rejected: once a client has started
\* the game, no write makes the stored roster longer.
C10_StartedRosterNeverGrows ==
  [][(\E c \in Clients : view[c] = "game")
       => Len(room'.players) <= Len(room.players)]_vars

\* C11: an action submitted from a game state that is not started is
\* rejected before any engine call: the engine is called only for a
\* submission whose game state has gameStarted true.
C11_EngineOnlyWhenStarted ==
  \A c \in Clients : \A i \in 1..Len(async[c]) :
    async[c][i].kind = "command" => async[c][i].snap.gameStarted

\* C12: a successful join appends exactly one player with isReady false at
\* the end of the roster, keeps every roster entry and its order, adds an
\* empty inventory entry and an empty equipped entry under the new id, and
\* leaves location, history and current player unchanged.
C12_JoinAppendsOnePlayer ==
  [][\A c \in Clients : \A i \in CallIdx :
      (/\ StoreApplies(c, i)
       /\ async[c][i].kind \in {"create", "join"}
       /\ async[c][i].room = 1 /\ async[c][i].snap = room) =>
       LET new == room'.players[Len(room'.players)]
       IN /\ Len(room'.players) = Len(room.players) + 1
          /\ SubSeq(room'.players, 1, Len(room.players)) = room.players
          /\ ~new.isReady
          /\ new.id = async[c][i].id
          /\ new.id \in DOMAIN room'.inventory /\ room'.inventory[new.id] = <<>>
          /\ \A k \in DOMAIN room.inventory : room'.inventory[k] = room.inventory[k]
          /\ new.id \in DOMAIN room'.equippedItems /\ room'.equippedItems[new.id] = <<>>
          /\ room'.currentLocation = room.currentLocation
          /\ room'.history = room.history
          /\ room'.currentPlayer = room.currentPlayer]_vars

\* C13: updatePlayerStatus(playerId, isReady) with no writer between its
\* select and its update replaces only the isReady flag of the roster entry
\* of playerId: every other entry, the roster order, inventory, history,
\* location and current player are unchanged, and the update itself starts
\* no game.
C13_ReadyUpdateTouchesOneFlag ==
  [][\A c \in Clients : \A i \in CallIdx :
       (/\ StoreApplies(c, i)
        /\ async[c][i].kind = "ready"
        /\ async[c][i].room = 1 /\ async[c][i].snap = room) =>
         /\ Len(room'.players) = Len(room.players)
         /\ \A k \in 1..Len(room.players) :
              /\ room'.players[k].id = room.players[k].id
              /\ room'.players[k].name = room.players[k].name
              /\ room'.players[k].isReady =
                   IF room.players[k].id = async[c][i].id
                   THEN (async[c][i].arg = "true")
                   ELSE room.players[k].isReady
         /\ room'.inventory = room.inventory
         /\ room'.history = room.history
         /\ room'.currentLocation = room.currentLocation
         /\ room'.currentPlayer = room.currentPlayer
         /\ room'.gameStarted = room.gameStarted
         /\ view' = view]_vars

\* C13, its case: in a roster of two the second player has set itself ready
\* and the first is still not ready
C13_SecondReadyFirstNot ==
  /\ Len(room.players) = 2
  /\ ~room.players[1].isReady
  /\ room.players[2].isReady

\* C14: no client's operation changes another player's fields: the stored
\* isReady flag of a player changes only in the update of that player's own
\* updatePlayerStatus call.
C14_ReadyFlagChangedByOwnerOnly ==
  [][\A k \in 1..Len(room.players) : \A j \in 1..Len(room'.players) :
         (/\ room'.players[j].id = room.players[k].id
          /\ room'.players[j].isReady # room.players[k].isReady)
           => \E c \in Clients : \E i \in CallIdx :
                /\ StoreApplies(c, i)
                /\ async[c][i].kind = "ready"
                /\ async[c][i].room = 1
                /\ async[c][i].id = room.players[k].id]_vars

\* C15: a pickup command that names an item of the found items moves exactly
\* that item from the found items into the inventory of the current player;
\* one that names no item moves the first found item, when there is one.
\* Stated for the actions the engine answered (no fallback narrative).
C15_PickupMovesNamedOrFirstItem ==
  [][\A c \in Clients : \A i \in CallIdx :
       handleCommandAnswer(c, i, FALSE) =>
       LET g == async[c][i].snap
           cmd == async[c][i].arg
           h == gameState'[c]
           cur == g.currentPlayer
           named == CASE cmd = "take torch" -> "torch"
                      [] cmd = "take chest" -> "chest"
                      [] OTHER -> ""
           item == IF named # "" THEN named ELSE g.foundItems[1]
       IN (/\ cmd \in {"take", "take ", "take torch", "take chest"}
           /\ h.history[Len(h.history)][1] # "fallback"
           /\ IF named # "" THEN SeqHas(g.foundItems, named) ELSE g.foundItems # <<>>)
          => /\ ~SeqHas(h.foundItems, item)
             /\ \A k \in 1..Len(g.foundItems) :
                  g.foundItems[k] # item => SeqHas(h.foundItems, g.foundItems[k])
             /\ h.inventory[cur] = Append(g.inventory[cur], item)
             /\ \A p \in (DOMAIN g.inventory) \ {cur} : h.inventory[p] = g.inventory[p]]_vars

\* C16: an equip command for an item of the current player's inventory
\* moves the item out of that inventory and into that player's equipped
\* items; for an item not in the inventory it leaves both unchanged.
\* Stated for the actions the engine answered (no fallback narrative).
C16_EquipMovesItemToEquipped ==
  [][\A c \in Clients : \A i \in CallIdx :
       handleCommandAnswer(c, i, FALSE) =>
       LET g == async[c][i].snap
           h == gameState'[c]
           cur == g.currentPlayer
       IN (/\ async[c][i].arg = "equip torch"
           /\ h.history[Len(h.history)][1] # "fallback")
          => IF SeqHas(g.inventory[cur], "torch")
             THEN /\ Len(h.inventory[cur]) = Len(g.inventory[cur]) - 1
                  /\ SeqHas(h.equippedItems[cur], "torch")
             ELSE /\ h.inventory[cur] = g.inventory[cur]
                  /\ h.equippedItems[cur] = g.equippedItems[cur]]_vars

\* C17: the turn timer forces progress.  Once a client's page has started the
\* game of a session (and nobody closes a page or submits an action), a skip
\* gets written: the stored history comes to hold a 'turn skipped' line.
C17_TimerForcesProgress ==
  (\E c \in Clients : view[c] = "game")
    ~> (\E k \in DOMAIN room.history : room.history[k][1] = "skipped")

\* C18: while a client's timer is paused, or while the client's own action
\* is being processed, the client's remaining time does not decrease and its
\* timer fires no skip (no tick of the interval and no expiry); a toggle of
\* the pause flips the flag, and the toggle that resumes puts the interval
\* back unless an action is being processed, so two toggles restore the
\* running state.
C18_NoTickWhilePausedOrProcessing ==
  [][\A c \in Clients :
       /\ (isTimerPaused[c] \/ isProcessing[c])
            => /\ timeRemaining'[c] >= timeRemaining[c]
               /\ ~TimerCounts(c)
               /\ ~TimerExpires(c)
       /\ toggleTimer(c)
            => /\ isTimerPaused'[c] = ~isTimerPaused[c]
               /\ timerState'[c].nil <=> (isTimerPaused'[c] \/ isProcessing[c])]_vars

\* C18, its case: the timer has counted down and is paused in mid-turn, with
\* no interval left
C18_PausedInMidTurn ==
  /\ build = "timer" /\ view["c1"] = "game"
  /\ isTimerPaused["c1"] /\ timerState["c1"].nil
  /\ timeRemaining["c1"] < TURN_TIME_LIMIT

\* C19: extend increases the remaining time by its amount but never above
\* the turn time limit, and through every tick, extend, pause, resume and
\* turn change the remaining time stays within 1..TURN_TIME_LIMIT.
C19_RemainingWithinLimit ==
  [][\A c \in Clients :
       /\ timeRemaining[c] \in 1..TURN_TIME_LIMIT
       /\ timeRemaining'[c] \in 1..TURN_TIME_LIMIT
       /\ handleExtendTime(c)
            => /\ timeRemaining'[c] >= timeRemaining[c]
               /\ timeRemaining[c] + ExtendSeconds <= TURN_TIME_LIMIT
                    => timeRemaining'[c] = timeRemaining[c] + ExtendSeconds
               /\ timeRemaining[c] + ExtendSeconds > TURN_TIME_LIMIT
                    => timeRemaining'[c] = TURN_TIME_LIMIT]_vars

\* the timer has run down to where an extension adds its whole amount, the
\* turn has changed hands and the timer is paused
C19_LowTimePausedAfterTurnChange ==
  /\ timeRemaining["c1"] + ExtendSeconds <= TURN_TIME_LIMIT
  /\ isTimerPaused["c1"]
  /\ ~gameState["c1"].nil /\ gameState["c1"].currentPlayer # ""

\* C20: clients converge on the store's document. Once no call is under
\* way and every notification and initial read has been delivered, the game
\* state on the screen of every client in the game is the stored document.
C20_QuiescentClientsHoldStoredDocument ==
  (\A c \in Clients : inbox[c] = <<>> /\ initFetch[c] = <<>> /\ async[c] = <<>>)
    => \A c \in Clients : view[c] = "game" => gameState[c] = room

\* C21: when the engine answers an action with a rate-limit signal, the
\* client's "resting" banner becomes set and the turn still advances: at the
\* end of a submission whose engine call met the rate limit and whose write
\* the store took without an error, the banner is set and the turn is with
\* the next roster member.
C21_RateLimitSetsBanner ==
  [][\A c \in Clients : \A i \in CallIdx : \A rnd \in 0..1 :
       (/\ handleCommandAnswer(c, i, FALSE)
        /\ rnd < fallbackCount(async[c][i].snap.currentLocation)
        /\ async[c][i].doc = commandState(async[c][i].snap, async[c][i].arg, RateLimited, rnd))
       => /\ isApiLimited'[c]
          /\ gameState'[c].currentPlayer = nextPlayerId(async[c][i].snap)]_vars

C23_EngineFailureKeepsLocation ==
  [][\A c \in Clients : \A i \in CallIdx : \A rnd \in 0..1 :
       (/\ handleCommandAnswer(c, i, FALSE)
        /\ rnd < fallbackCount(async[c][i].snap.currentLocation)
        /\ async[c][i].doc = commandStateOlder(async[c][i].snap, async[c][i].arg, NetworkError, rnd))
       => gameState'[c].currentLocation = async[c][i].snap.currentLocation]_vars

\* C24: every state a client writes for an action (no skip is ever started,
\* see C22) is computed from the
\* latest snapshot the client has observed at the moment of the write: what
\* the commit of an action starts from, when its engine call has returned, is
\* the game state then on the client's screen.
C24_WritesStartFromLatestSnapshot ==
  [][\A c \in Clients : \A i \in CallIdx : \A llm \in LlmOutcomes : \A rnd \in 0..1 :
       handleCommandEngine(c, i, llm, rnd) => async[c][i].snap = gameState[c]]_vars

\* C26: every accepted action extends history by exactly two lines, in
\* order: the command echo naming the acting player with the text typed,
\* then the narrative (or fallback narrative) for that action.
C26_ActionAppendsEchoAndNarrative ==
  [][\A c \in Clients : \A i \in CallIdx :
       handleCommandAnswer(c, i, FALSE) =>
       LET g == async[c][i].snap
           h == gameState'[c].history
           n == Len(g.history)
       IN /\ Len(h) = n + 2
          /\ \A k \in 1..n : h[k] = g.history[k]
          /\ h[n + 1] = Line("echo", findName(g.players, async[c][i].id), async[c][i].arg)
          /\ h[n + 2][1] \in {"narrative", "fallback", "help", "pick up",
                              "open first", "nothing to pick up"}]_vars

\* C27: after a successful engine call the session's location is the
\* location the engine reported when that is present and non-empty, and is
\* unchanged otherwise.
C27_EngineLocationIsAdopted ==
  [][\A c \in Clients : \A i \in CallIdx : \A llm \in LlmOutcomes :
       (/\ handleCommandAnswer(c, i, FALSE)
        /\ llm.status = "ok" /\ async[c][i].arg # "help"
        /\ async[c][i].doc = commandState(async[c][i].snap, async[c][i].arg, llm, 0))
       => gameState'[c].currentLocation =
            IF llm.location # "" THEN llm.location ELSE async[c][i].snap.currentLocation]_vars

\* C28: a pickup command that matches no found item (the named item is not
\* among the found items, or no item is named and none is found) changes no
\* player's inventory and leaves the found items unchanged, its narrative is
\* the fixed "nothing to pick up" message, and the turn still advances.
C28_PickupWithoutMatchChangesNothing ==
  [][\A c \in Clients : \A i \in CallIdx :
       handleCommandAnswer(c, i, FALSE) =>
       LET g == async[c][i].snap
           cmd == async[c][i].arg
           h == gameState'[c]
           named == CASE cmd = "take torch" -> "torch"
                      [] cmd = "take chest" -> "chest"
                      [] OTHER -> ""
       IN (/\ cmd \in {"take", "take ", "take torch", "take chest"}
           /\ IF named # "" THEN ~SeqHas(g.foundItems, named) ELSE g.foundItems = <<>>)
          => /\ h.inventory = g.inventory
             /\ h.foundItems = g.foundItems
             /\ h.history[Len(h.history)][1] = "nothing to pick up"
             /\ h.currentPlayer = nextPlayerId(g)]_vars

\* C29: when the store write of an action fails, the failure is surfaced as
\* an error line appended to the history on the client's screen, and the
\* client's local state is not the pre-action state again.
C29_StoreFailureSurfacesInHistory ==
  [][\A c \in Clients : \A i \in CallIdx :
       handleCommandAnswer(c, i, TRUE) =>
       LET h == gameState'[c].history
       IN /\ Len(h) > Len(async[c][i].snap.history)
          /\ h[Len(h)][1] = "error"
          /\ gameState'[c] # async[c][i].snap]_vars

----------------------------------------------------------------------------
(* Properties of items and roster *)

\* C31: the found items of a session never hold two entries with the same
\* lower-case name, on any screen and after any sequence of actions: an item
\* already found is not appended again when a later narrative reports it.
C31_FoundItemsHaveNoDuplicates ==
  \A c \in Clients :
    LET f == gameState[c].foundItems
    IN \A i, j \in 1..Len(f) : i # j => toLowerCase(f[i]) # toLowerCase(f[j])

\* three actions in, the found items hold the torch once, every narrative
\* since having listed found items
C31_TorchFoundOnceAfterTwoNarratives ==
  LET g == gameState["c1"]
  IN /\ ~g.nil /\ Len(g.history) = 3
     /\ g.history[2] = Line("narrative", "you found", "")
     /\ g.history[3] = Line("narrative", "you found", "")
     /\ g.foundItems = << "torch" >>

\* C32: the ids of the players of a stored roster are pairwise distinct:
\* every join adds an id that no player already in the roster has.
C32_RosterIdsDistinct ==
  \A i, j \in 1..Len(room.players) :
    i # j => room.players[i].id # room.players[j].id

\* C33: the stored roster only grows: a player whose join has returned its
\* id and who is in the stored roster is in the stored roster after every
\* step, whatever the other clients' joins, ready updates and writes do.
C33_JoinedPlayerStaysInRoster ==
  [][\A c \in Clients :
       (playerId[c] # "" /\ playerId[c] \in Ids(room.players)) =>
         playerId[c] \in Ids(room'.players)]_vars

\* C34: found items are conserved on their way out: across any action, an
\* item that was among the found items before and is not among them after is
\* in the acting player's inventory after; no action makes a found item
\* vanish, a pickup of a chest and an action answered by the fallback
\* included.
C34_FoundItemLeavesOnlyIntoInventory ==
  [][\A c \in Clients : \A i \in CallIdx :
       handleCommandAnswer(c, i, FALSE) =>
       LET g == async[c][i].snap
           h == gameState'[c]
       IN \A item \in Items :
               (SeqHas(g.foundItems, item) /\ ~SeqHas(h.foundItems, item))
                 => SeqHas(Lookup(h.inventory, g.currentPlayer), item)]_vars

\* C35: an action creates no item: every item the acting player's inventory
\* holds after an action and did not hold before it was among the found
\* items immediately before the action, also when the engine call fails and
\* the fallback answers.
C35_InventoryGainsOnlyFoundItems ==
  [][\A c \in Clients : \A i \in CallIdx :
       handleCommandAnswer(c, i, FALSE) =>
       LET g == async[c][i].snap
           h == gameState'[c]
       IN \A item \in Items :
               (/\ SeqHas(Lookup(h.inventory, g.currentPlayer), item)
                /\ ~SeqHas(Lookup(g.inventory, g.currentPlayer), item))
                 => SeqHas(g.foundItems, item)]_vars

\* C36: an accepted action changes the inventory and the equipped items of
\* the player holding the turn only: for every other player of the roster,
\* inventory and equipped items in the state the action produces are those
\* of the game state the action was computed from.
C36_ActionTouchesActingPlayerOnly ==
  [][\A c \in Clients : \A i \in CallIdx :
       handleCommandAnswer(c, i, FALSE) =>
       LET g == async[c][i].snap
           h == gameState'[c]
       IN \A p \in Ids(g.players) \ {g.currentPlayer} :
               /\ Lookup(h.inventory, p) = Lookup(g.inventory, p)
               /\ Lookup(h.equippedItems, p) = Lookup(g.equippedItems, p)
               /\ (p \in DOMAIN h.inventory) = (p \in DOMAIN g.inventory)]_vars

\* C36, its case: in a roster of two, the player holding the turn has picked
\* an item up and the other player's inventory is empty
C36_HolderHasItemOtherHasNone ==
  LET g == gameState["c1"]
  IN /\ ~g.nil /\ Len(g.players) = 2
     /\ g.currentPlayer \in DOMAIN g.inventory
     /\ Len(g.inventory[g.currentPlayer]) > 0
     /\ \E p \in Ids(g.players) \ {g.currentPlayer} :
          p \in DOMAIN g.inventory /\ g.inventory[p] = <<>>

----------------------------------------------------------------------------
(* Properties of processing *)

\* C37: a client has at most one action in flight at any time: while a
\* submitted action awaits the engine or the store, a further submission of
\* the same client starts no second engine call and no second store write.
C37_AtMostOneActionInFlight ==
  \A c \in Clients : callsInFlight(c) <= 1

\* C38: every submission ends the client's processing: when every engine
\* call and every store call returns or fails in the end, a client whose
\* handler has set the processing flag (isLoading in TextAdventure.tsx) gets
\* it cleared again, whether the engine failed, the store write failed, or
\* both succeeded.
C38_ProcessingEnds ==
  \A c \in Clients : isProcessing[c] ~> ~isProcessing[c]

\* C38, its case: the handler has come to its end after a store write that
\* failed, and the flag is cleared
C38_ClearedAfterFailedWrite ==
  /\ build = "src" /\ error["c1"] = "Failed to update game state"
  /\ async["c1"] = <<>> /\ ~isProcessing["c1"]
====
